---- MODULE Spec2Model ----
(***************************************************************************)
(* Recommendation microservice (src/main.py): GET /recommendations/{id}.   *)
(*                                                                         *)
(* A request validates top_n, reads the three collections of the document *)
(* store, preprocesses the preference and course frames, filters the       *)
(* courses whose typeRessource is one of the user's preferences and        *)
(* returns the first top_n of them.                                        *)
(*                                                                         *)
(* Strings that the code transforms character by character (the            *)
(* typeRessource labels) are sequences of one-character strings; strings   *)
(* the code only compares (user ids, messages) are TLA+ strings.           *)
(* Documents of db.preferences carry user and typeRessource, documents of  *)
(* db.courses carry _id and title (level and price travel with title and   *)
(* are not modelled) and may lack typeRessource or hold null in it.        *)
(***************************************************************************)
EXTENDS Integers, Sequences, FiniteSets, TLC

VARIABLES
    prefsColl,      \* db.preferences: the documents, in scan order
    coursesColl,    \* db.courses: the documents, in scan order
    reqs,           \* the requests the transport serves
    pc,             \* pc[r]: where request r is in get_recommendations
    user_id,        \* user_id[r]: path parameter
    top_n,          \* top_n[r]: query parameter
    prefs_df,       \* prefs_df[r]: load_data's local frame of request r
    response,       \* response[r]: what the caller receives
    finds,          \* finds[r]: number of collection.find() calls issued
    failedAt,       \* failedAt[r]: which find() raised (0: none)
    snapPrefs,      \* snapPrefs[r]: the preference documents r read
    snapCourses,    \* snapCourses[r]: the course documents r read
    norm            \* the label being normalised (label-level specification)

vars == <<prefsColl, coursesColl, reqs, pc, user_id, top_n, prefs_df,
          response, finds, failedAt, snapPrefs, snapCourses, norm>>

storeVars == <<prefsColl, coursesColl>>

reqVars == <<pc, user_id, top_n, prefs_df, response, finds, failedAt,
             snapPrefs, snapCourses>>

----------------------------------------------------------------------------
(* Bounds of the model *)

MaxPrefs == 2

MaxCourses == 2

MaxLabelLen == 3

MaxConcDocs == 1

(* top_n < 1 or top_n > 50 *)
MinTopN == 1

MaxTopN == 50

BoundedSeq(S, n) == UNION {[1..k -> S] : k \in 0..n}

Min(a, b) == IF a < b THEN a ELSE b

----------------------------------------------------------------------------
(* Values found in store documents *)

\* a key that the document does not have
Missing == <<"#missing">>

\* a key holding null
None == <<"#none">>

\* pandas' marker for a cell with no value
NaN == <<"#nan">>

IsNA(v) == v \in {None, NaN}

\* identifiers as the store holds them: an ObjectId (its hex form in text)
\* or an integer
Oid(hex) == [kind |-> "oid", num |-> 0, text |-> hex]

IntId(n) == [kind |-> "int", num |-> n, text |-> ""]

Digit == <<"0", "1", "2", "3", "4", "5", "6", "7", "8", "9">>

RECURSIVE IntStr(_)
IntStr(n) == IF n < 10 THEN Digit[n + 1]
             ELSE IntStr(n \div 10) \o Digit[(n % 10) + 1]

\* str(v), as .apply(str) and .astype(str) compute it
PyStr(v) == CASE v.kind = "oid" -> v.text
              [] v.kind = "int" -> IntStr(v.num)
              [] OTHER          -> v.text

----------------------------------------------------------------------------
(* String methods of the preprocessing *)

Whitespace == {" ", "\t", "\n"}

UpperCase == <<"A", "B", "C", "D", "E", "F", "G", "H", "I", "J", "K", "L", "M",
               "N", "O", "P", "Q", "R", "S", "T", "U", "V", "W", "X", "Y", "Z">>

LowerCase == <<"a", "b", "c", "d", "e", "f", "g", "h", "i", "j", "k", "l", "m",
               "n", "o", "p", "q", "r", "s", "t", "u", "v", "w", "x", "y", "z">>

char_lower(c) == IF \E i \in 1..26 : UpperCase[i] = c
                 THEN LowerCase[CHOOSE i \in 1..26 : UpperCase[i] = c]
                 ELSE c

\* Series.str.lower(): a cell with no value stays without value
str_lower(v) == IF IsNA(v) THEN NaN ELSE [i \in 1..Len(v) |-> char_lower(v[i])]

RECURSIVE lstrip(_)
lstrip(s) == IF s # <<>> /\ Head(s) \in Whitespace THEN lstrip(Tail(s)) ELSE s

RECURSIVE rstrip(_)
rstrip(s) == IF s # <<>> /\ s[Len(s)] \in Whitespace
             THEN rstrip(SubSeq(s, 1, Len(s) - 1))
             ELSE s

\* a strip that removes one whitespace character from each end only
str_strip_once(v) ==
    IF IsNA(v) THEN NaN
    ELSE LET l == IF v # <<>> /\ Head(v) \in Whitespace THEN Tail(v) ELSE v
         IN  IF l # <<>> /\ l[Len(l)] \in Whitespace
             THEN SubSeq(l, 1, Len(l) - 1)
             ELSE l

\* Series.str.strip()
str_strip(v) == IF IsNA(v) THEN NaN ELSE rstrip(lstrip(v))

\* Series.fillna(value)
fillna(v, value) == IF IsNA(v) THEN value ELSE v

\* Series.replace(to_replace, value): whole cells equal to to_replace
replace(v, to_replace, value) == IF v = to_replace THEN value ELSE v

Other == <<"o", "t", "h", "e", "r">>

VariantLabel == <<" ", "i", "n", "t", "e", "r", "a", "c", "t", "i", "v", "e",
                  " ", "e", "x", "e", "r", "c", "i", "c", "e">>

CanonicalLabel == <<"i", "n", "t", "e", "r", "a", "c", "t", "i", "v", "e",
                    " ", "e", "x", "e", "r", "c", "i", "c", "e">>

\* courses_df['typeRessource']: fillna('other'), str.lower(), str.strip()
normalize_course_label(v) == str_strip(str_lower(fillna(v, Other)))

\* prefs_df['typeRessource']: str.lower(), str.strip(), replace(variant)
normalize_pref_label(v) ==
    replace(str_strip(str_lower(v)), VariantLabel, CanonicalLabel)

----------------------------------------------------------------------------
(* Frames: pd.DataFrame(list(collection.find())) *)

PrefColumns == {"_id", "user", "typeRessource"}

CourseColumns == {"_id", "title", "level", "price"}

EmptyFrame == [columns |-> {}, rows |-> <<>>]

\* a frame has the keys found in at least one document; no document, no column
PrefsFrame(docs) ==
    [columns |-> IF docs = <<>> THEN {} ELSE PrefColumns,
     rows    |-> docs]

\* a key some documents lack is a column whose cell is NaN for them
CoursesFrame(docs) ==
    [columns |-> (IF docs = <<>> THEN {} ELSE CourseColumns)
                 \cup (IF \E i \in 1..Len(docs) : docs[i].typeRessource # Missing
                       THEN {"typeRessource"} ELSE {}),
     rows    |-> [i \in 1..Len(docs) |->
                    [docs[i] EXCEPT !.typeRessource =
                        IF @ = Missing THEN NaN ELSE @]]]

\* lines 64-66
preprocess_courses(df) ==
    [df EXCEPT !.rows = [i \in 1..Len(df.rows) |->
        [_id           |-> PyStr(df.rows[i]._id),
         title         |-> df.rows[i].title,
         typeRessource |-> normalize_course_label(df.rows[i].typeRessource)]]]

\* lines 69-71
preprocess_prefs(df) ==
    [df EXCEPT !.rows = [i \in 1..Len(df.rows) |->
        [user          |-> PyStr(df.rows[i].user),
         typeRessource |-> normalize_pref_label(df.rows[i].typeRessource)]]]

\* load_data after the three reads: indexing a column the frame does not
\* have raises KeyError, which the except clause turns into a failure
load_data(prefs_raw, courses_raw) ==
    IF \/ "typeRessource" \notin courses_raw.columns
       \/ "_id" \notin courses_raw.columns
       \/ "typeRessource" \notin prefs_raw.columns
       \/ "user" \notin prefs_raw.columns
    THEN [raised |-> TRUE, prefs_df |-> EmptyFrame, courses_df |-> EmptyFrame]
    ELSE [raised     |-> FALSE,
          prefs_df   |-> preprocess_prefs(prefs_raw),
          courses_df |-> preprocess_courses(courses_raw)]

----------------------------------------------------------------------------
(* The core: preferences of a user, matching, truncation *)

\* a filter that also drops the repeated entries of a user
get_user_preferences_unique(uid, df) ==
    LET rows == SelectSeq(df.rows, LAMBDA row : row.user = uid)
        keep == SelectSeq([i \in 1..Len(rows) |-> i],
                          LAMBDA i : \A j \in 1..(i - 1) :
                              rows[j].typeRessource # rows[i].typeRessource)
    IN  [i \in 1..Len(keep) |-> rows[keep[i]].typeRessource]

get_user_preferences(uid, df) ==
    LET rows == SelectSeq(df.rows, LAMBDA row : row.user = uid)
    IN  [i \in 1..Len(rows) |-> rows[i].typeRessource]

\* Series.isin(values)
isin(v, values) == \E i \in 1..Len(values) : values[i] = v

Max(a, b) == IF a > b THEN a ELSE b

\* the last n rows instead of the first n
df_tail(rows, n) == SubSeq(rows, Len(rows) - Min(n, Len(rows)) + 1, Len(rows))

\* one row more than asked for
df_head_plus_one(rows, n) == SubSeq(rows, 1, Min(n + 1, Len(rows)))

\* DataFrame.head(n)
df_head(rows, n) ==
    IF n >= 0 THEN SubSeq(rows, 1, Min(n, Len(rows)))
    ELSE SubSeq(rows, 1, Max(0, Len(rows) + n))

recommend_courses(uid, prefs, courses, n) ==
    LET user_prefs == get_user_preferences(uid, prefs)
        matched_courses ==
            SelectSeq(courses.rows,
                      LAMBDA row : isin(row.typeRessource, user_prefs))
    IN  IF user_prefs = <<>> THEN <<>>
        ELSE IF matched_courses = <<>> THEN <<>>
        ELSE df_head(matched_courses, n)

----------------------------------------------------------------------------
(* Responses *)

NoResponse ==
    [status |-> 0, detail |-> "", user_id |-> "",
     preferences |-> <<>>, recommendations |-> <<>>]

HTTPException(status_code, detail) ==
    [status |-> status_code, detail |-> detail, user_id |-> "",
     preferences |-> <<>>, recommendations |-> <<>>]

OkResponse(uid, preferences, recommendations) ==
    [status |-> 200, detail |-> "", user_id |-> uid,
     preferences |-> preferences, recommendations |-> recommendations]

\* load_data's except clause (lines 75-77)
load_data_except(e) == HTTPException(500, "Error loading data")

\* get_recommendations' except clause (lines 136-138): `except Exception`
\* catches every exception raised in the body, the HTTPException of
\* line 119 and the one of load_data included
handler_except(e) == HTTPException(500, "Error processing recommendations")

\* a range check that lets 0 through
top_n_rejected_from_zero(n) == n < MinTopN - 1 \/ n > MaxTopN

\* line 118
top_n_rejected(n) == n < MinTopN \/ n > MaxTopN

\* lines 125-135, on the frames load_data returned
respond(uid, n, loaded) ==
    IF loaded.raised THEN handler_except(load_data_except("KeyError"))
    ELSE OkResponse(uid,
                    get_user_preferences(uid, loaded.prefs_df),
                    recommend_courses(uid, loaded.prefs_df, loaded.courses_df, n))

\* a failed find() answered with an empty result instead of a failure
load_failure_swallowed(uid) == OkResponse(uid, <<>>, <<>>)

\* a find() that raises inside load_data: lines 75-77, then 136-138
load_failure_response(uid) == handler_except(load_data_except("find"))

\* a frame kept in one process-wide variable, seen by every request
bind_shared(f, r, v) == [q \in DOMAIN f |-> v]

\* prefs_df, courses_df are local variables of the call serving request r
bind_local(f, r, v) == [f EXCEPT ![r] = v]

----------------------------------------------------------------------------
(* Store contents and request parameters the model ranges over *)

VideoRaw == <<" ", "V", "i", "d", "e", "o", " ">>

OtherRaw == <<"O", "T", "H", "E", "R">>

VideoCourse == <<"v", "i", "d", "e", "o">>

ExerciceCourse == <<"I", "n", "t", "e", "r", "a", "c", "t", "i", "v", "e", " ",
                    "E", "x", "e", "r", "c", "i", "c", "e", " ">>

PrefLabels == {VideoRaw, VariantLabel, OtherRaw}

CourseTypes == {VideoCourse, ExerciceCourse, None, Missing}

StoredUsers == {Oid("a1"), IntId(7)}

UserIds == {"a1", "7", "ghost"}

TopNs == {MinTopN - 1, MinTopN, MaxTopN, MaxTopN + 1}

PrefDocs == [user : StoredUsers, typeRessource : PrefLabels]

PrefColls == BoundedSeq(PrefDocs, MaxPrefs)

\* the store gives every document an _id of its own
CourseDoc(i, t) ==
    [_id |-> Oid("c" \o IntStr(i)), title |-> "T" \o IntStr(i),
     typeRessource |-> t]

MkCatalog(ts) == [i \in 1..Len(ts) |-> CourseDoc(i, ts[i])]

Catalogs == {MkCatalog(ts) : ts \in BoundedSeq(CourseTypes, MaxCourses)}

\* the smaller store of the concurrent specification
ConcPrefColls ==
    BoundedSeq({[user |-> Oid("a1"), typeRessource |-> VideoRaw]}, MaxConcDocs)

ConcCatalogs ==
    {MkCatalog(ts) : ts \in BoundedSeq({VideoCourse, Missing}, MaxConcDocs)}

ConcUserIds == {"a1", "ghost"}

ConcTopNs == {MinTopN, MaxTopN + 1}

NormAlphabet == {" ", "\t", "a", "A"}

NormLabels ==
    BoundedSeq(NormAlphabet, MaxLabelLen)
        \cup {VariantLabel, CanonicalLabel, VideoRaw, ExerciceCourse, OtherRaw}

NormIdle == [step |-> 0, column |-> "", raw |-> <<>>, once |-> <<>>, twice |-> <<>>]

----------------------------------------------------------------------------
(* Initial states *)

ReqInit ==
    /\ pc = [r \in reqs |-> "idle"]
    /\ user_id = [r \in reqs |-> ""]
    /\ top_n = [r \in reqs |-> 0]
    /\ prefs_df = [r \in reqs |-> EmptyFrame]
    /\ response = [r \in reqs |-> NoResponse]
    /\ finds = [r \in reqs |-> 0]
    /\ failedAt = [r \in reqs |-> 0]
    /\ snapPrefs = [r \in reqs |-> <<>>]
    /\ snapCourses = [r \in reqs |-> <<>>]

\* one request against any store
Init ==
    /\ prefsColl \in PrefColls
    /\ coursesColl \in Catalogs
    /\ reqs = {"r1"}
    /\ ReqInit
    /\ norm = NormIdle

\* two requests served at once, against a store that other clients write
InitConc ==
    /\ prefsColl \in ConcPrefColls
    /\ coursesColl \in ConcCatalogs
    /\ reqs = {"r1", "r2"}
    /\ ReqInit
    /\ norm = NormIdle

\* one label of one column, about to be normalised
InitNorm ==
    /\ prefsColl = <<>>
    /\ coursesColl = <<>>
    /\ reqs = {}
    /\ ReqInit
    /\ norm \in {[NormIdle EXCEPT !.column = "preferences", !.raw = l] :
                    l \in NormLabels}
           \cup {[NormIdle EXCEPT !.column = "courses", !.raw = l] :
                    l \in NormLabels \cup {None, NaN}}

----------------------------------------------------------------------------
(* Steps of a request: get_recommendations, lines 116-138 *)

\* lines 118-119: the range check; the HTTPException(400) it raises is
\* raised inside the try block and reaches the except clause of line 136
get_recommendations_validate(r, u, n) ==
    /\ pc[r] = "idle"
    /\ user_id' = [user_id EXCEPT ![r] = u]
    /\ top_n' = [top_n EXCEPT ![r] = n]
    /\ IF top_n_rejected(n)
       THEN /\ response' = [response EXCEPT ![r] =
                   handler_except(HTTPException(400, "top_n must be between 1 and 50"))]
            /\ pc' = [pc EXCEPT ![r] = "done"]
       ELSE /\ pc' = [pc EXCEPT ![r] = "find_users"]
            /\ UNCHANGED response
    /\ UNCHANGED <<storeVars, reqs, prefs_df, finds, failedAt, snapPrefs,
                   snapCourses, norm>>

\* line 59: users are read and not used
load_data_find_users(r) ==
    /\ pc[r] = "find_users"
    /\ pc' = [pc EXCEPT ![r] = "find_prefs"]
    /\ finds' = [finds EXCEPT ![r] = @ + 1]
    /\ UNCHANGED <<storeVars, reqs, user_id, top_n, prefs_df, response,
                   failedAt, snapPrefs, snapCourses, norm>>

\* line 60
load_data_find_prefs(r) ==
    /\ pc[r] = "find_prefs"
    /\ pc' = [pc EXCEPT ![r] = "find_courses"]
    /\ finds' = [finds EXCEPT ![r] = @ + 1]
    /\ prefs_df' = bind_local(prefs_df, r, PrefsFrame(prefsColl))
    /\ snapPrefs' = [snapPrefs EXCEPT ![r] = prefsColl]
    /\ UNCHANGED <<storeVars, reqs, user_id, top_n, response, failedAt,
                   snapCourses, norm>>

\* line 61, then the rest of the request, which reads nothing more:
\* preprocessing (64-71), recommend_courses (125), the response (128-135)
load_data_find_courses(r) ==
    /\ pc[r] = "find_courses"
    /\ pc' = [pc EXCEPT ![r] = "done"]
    /\ finds' = [finds EXCEPT ![r] = @ + 1]
    /\ snapCourses' = [snapCourses EXCEPT ![r] = coursesColl]
    /\ response' = [response EXCEPT ![r] =
           respond(user_id[r], top_n[r],
                   load_data(prefs_df[r], CoursesFrame(coursesColl)))]
    /\ prefs_df' = bind_local(prefs_df, r, EmptyFrame)
    /\ UNCHANGED <<storeVars, reqs, user_id, top_n, failedAt, snapPrefs, norm>>

\* any of the three find() calls raises (the store is unreachable, times
\* out, ...): load_data's except clause, then the handler's
find_raises(r) ==
    /\ pc[r] \in {"find_users", "find_prefs", "find_courses"}
    /\ pc' = [pc EXCEPT ![r] = "done"]
    /\ finds' = [finds EXCEPT ![r] = @ + 1]
    /\ failedAt' = [failedAt EXCEPT ![r] = finds[r] + 1]
    /\ response' = [response EXCEPT ![r] = load_failure_response(user_id[r])]
    /\ prefs_df' = bind_local(prefs_df, r, EmptyFrame)
    /\ UNCHANGED <<storeVars, reqs, user_id, top_n, snapPrefs, snapCourses, norm>>

\* another client of the store inserts or deletes documents
StoreWrite ==
    /\ prefsColl' \in ConcPrefColls
    /\ coursesColl' \in ConcCatalogs
    /\ <<prefsColl', coursesColl'>> # <<prefsColl, coursesColl>>
    /\ UNCHANGED <<reqs, reqVars, norm>>

Normalize(column, v) ==
    IF column = "courses" THEN normalize_course_label(v)
    ELSE normalize_pref_label(v)

\* the preprocessing of one cell
normalize_once ==
    /\ norm.step = 0
    /\ norm.column # ""
    /\ norm' = [norm EXCEPT !.step = 1, !.once = Normalize(norm.column, norm.raw)]
    /\ UNCHANGED <<storeVars, reqs, reqVars>>

\* the preprocessing applied to an already preprocessed cell
normalize_again ==
    /\ norm.step = 1
    /\ norm' = [norm EXCEPT !.step = 2, !.twice = Normalize(norm.column, norm.once)]
    /\ UNCHANGED <<storeVars, reqs, reqVars>>

Next ==
    \/ \E r \in reqs, u \in UserIds, n \in TopNs :
           get_recommendations_validate(r, u, n)
    \/ \E r \in reqs : load_data_find_users(r)
    \/ \E r \in reqs : load_data_find_prefs(r)
    \/ \E r \in reqs : load_data_find_courses(r)
    \/ \E r \in reqs : find_raises(r)

NextConc ==
    \/ \E r \in reqs, u \in ConcUserIds, n \in ConcTopNs :
           get_recommendations_validate(r, u, n)
    \/ \E r \in reqs : load_data_find_users(r)
    \/ \E r \in reqs : load_data_find_prefs(r)
    \/ \E r \in reqs : load_data_find_courses(r)
    \/ \E r \in reqs : find_raises(r)
    \/ StoreWrite

NextNorm == normalize_once \/ normalize_again

Spec == Init /\ [][Next]_vars

SpecConc == InitConc /\ [][NextConc]_vars

SpecNorm == InitNorm /\ [][NextNorm]_vars

----------------------------------------------------------------------------
(* One request served alone, start to end: get_recommendations(user_id,    *)
(* top_n) on the documents its find() calls return; raisedAt names the     *)
(* find() that raises (0: none).                                           *)

get_recommendations(uid, n, prefDocs, courseDocs, raisedAt) ==
    IF top_n_rejected(n)
    THEN handler_except(HTTPException(400, "top_n must be between 1 and 50"))
    ELSE IF raisedAt # 0 THEN load_failure_response(uid)
    ELSE respond(uid, n, load_data(PrefsFrame(prefDocs), CoursesFrame(courseDocs)))

----------------------------------------------------------------------------
(* Vocabulary of the properties *)

Done(r) == pc[r] = "done"

Ok(r) == Done(r) /\ response[r].status = 200

ValidLimit(r) == top_n[r] \in 1..50

Reading(r) == pc[r] \in {"find_users", "find_prefs", "find_courses"}

\* request r went through its three reads and none raised
Loaded(r) == Done(r) /\ ValidLimit(r) /\ failedAt[r] = 0

Absent(t) == t \in {Missing, None, NaN}

\* the normalised resource type of a stored label: no resource type is
\* "other"; otherwise lowercase, trimmed, the known variant corrected
LabelOf(t) ==
    IF Absent(t) THEN Other
    ELSE LET s == rstrip(lstrip([i \in 1..Len(t) |-> char_lower(t[i])]))
         IN  IF s = VariantLabel THEN CanonicalLabel ELSE s

\* the stored preferences of the user of request r, in store order
StoredPrefsOf(r) ==
    SelectSeq(snapPrefs[r], LAMBDA p : PyStr(p.user) = user_id[r])

WantedLabels(r) ==
    {LabelOf(StoredPrefsOf(r)[j].typeRessource) : j \in 1..Len(StoredPrefsOf(r))}

\* the catalog items of the snapshot that match, in catalog order
MatchesOf(r) ==
    SelectSeq(snapCourses[r], LAMBDA d : LabelOf(d.typeRessource) \in WantedLabels(r))

Recs(r) == response[r].recommendations

RecIds(r) == {Recs(r)[i]._id : i \in 1..Len(Recs(r))}

----------------------------------------------------------------------------
(* C1. A request whose top_n is outside [1,50] is answered with status 400 *)
(* (a client error), never with status 500.                                *)
C1_RejectedLimitIs400 ==
    \A r \in reqs :
        (Done(r) /\ ~ValidLimit(r)) => response[r].status = 400

(* C7. The limit is validated before anything else: a request whose top_n  *)
(* is outside [1,50] ends as a failure without a single read of the store, *)
(* only a request whose top_n is in [1,50] reads the store, and such a     *)
(* request (top_n = 1 and top_n = 50 included) does go on to the load.     *)
C7_ValidationBeforeLoad ==
    \A r \in reqs :
        /\ (Reading(r) \/ finds[r] > 0) => ValidLimit(r)
        /\ (Done(r) /\ ~ValidLimit(r)) =>
               (finds[r] = 0 /\ response[r].status >= 400)
        /\ (Done(r) /\ ValidLimit(r)) => finds[r] >= 1
        /\ (pc[r] # "idle" /\ top_n[r] \in {1, 50}) => (Reading(r) \/ finds[r] >= 1)

\* a request with top_n = 51 has ended and has read nothing
C7_Witness ==
    \E r \in reqs : Done(r) /\ top_n[r] = 51 /\ finds[r] = 0

(* C5. If a read of the store fails, the request ends at once in a server  *)
(* failure (status 500): no read follows the failed one (no retry), and    *)
(* the caller receives no result, full or partial.                         *)
C5_FailedReadIs500 ==
    \A r \in reqs :
        /\ finds[r] <= 3
        /\ failedAt[r] # 0 =>
              /\ Done(r)
              /\ response[r].status = 500
              /\ response[r].preferences = <<>>
              /\ response[r].recommendations = <<>>
              /\ response[r].user_id = ""
              /\ finds[r] = failedAt[r]

\* the read of the preferences failed, after the users were read
C5_Witness ==
    \E r \in reqs : failedAt[r] = 2 /\ Done(r) /\ finds[r] = 2

(* C2. A request that returns a result returns at most top_n             *)
(* recommendations, and the normalised resource type of every returned     *)
(* item is an element of the preferences list of the same result.          *)
C2_BoundedAndPreferred ==
    \A r \in reqs :
        Ok(r) =>
            /\ Len(Recs(r)) <= top_n[r]
            /\ \A i \in 1..Len(Recs(r)) :
                   \E j \in 1..Len(response[r].preferences) :
                       response[r].preferences[j] = LabelOf(Recs(r)[i].typeRessource)

\* top_n items were returned and a further matching item was cut off
C2_Witness ==
    \E r \in reqs :
        /\ Ok(r)
        /\ Len(Recs(r)) = top_n[r]
        /\ Len(MatchesOf(r)) > top_n[r]

(* C3. The recommendations of a successful request are exactly the first   *)
(* top_n, in catalog order, of the catalog items whose normalised resource *)
(* type equals the normalised resource type of one of the user's           *)
(* preferences: order is kept, no match is skipped for a later one, and    *)
(* labels that differ by case or surrounding whitespace match.             *)
C3_FirstMatchesInCatalogOrder ==
    \A r \in reqs :
        Ok(r) =>
            LET matches == MatchesOf(r)
                k == Min(top_n[r], Len(matches))
            IN  /\ Len(Recs(r)) = k
                /\ \A i \in 1..k :
                       /\ Recs(r)[i]._id = PyStr(matches[i]._id)
                       /\ Recs(r)[i].title = matches[i].title
                       /\ Recs(r)[i].typeRessource = LabelOf(matches[i].typeRessource)

\* the first of two matching items was returned, the second cut off, and the
\* returned item's stored label is not the stored label of any preference
C3_Witness ==
    \E r \in reqs :
        /\ Ok(r)
        /\ top_n[r] = 1
        /\ Len(MatchesOf(r)) = 2
        /\ Recs(r)[1]._id = PyStr(MatchesOf(r)[1]._id)
        /\ \A j \in 1..Len(StoredPrefsOf(r)) :
               StoredPrefsOf(r)[j].typeRessource # MatchesOf(r)[1].typeRessource

(* C8. The preferences list of a result is exactly the normalised resource *)
(* types of the stored preferences whose user, converted to a string,      *)
(* equals the requested user id: in store order, duplicates kept, nothing  *)
(* of any other user.                                                      *)
C8_PreferencesOfUserInOrder ==
    \A r \in reqs :
        Ok(r) =>
            /\ Len(response[r].preferences) = Len(StoredPrefsOf(r))
            /\ \A j \in 1..Len(StoredPrefsOf(r)) :
                   response[r].preferences[j] = LabelOf(StoredPrefsOf(r)[j].typeRessource)

\* a user stored under an integer id, with the same preference twice
C8_Witness ==
    \E r \in reqs :
        /\ Ok(r)
        /\ user_id[r] = "7"
        /\ Len(response[r].preferences) = 2
        /\ response[r].preferences[1] = response[r].preferences[2]

(* C4. A user with no stored preference (an unknown user included) and a   *)
(* top_n in [1,50]: the request succeeds (status 200) with preferences =   *)
(* [] and recommendations = [], whatever the catalog and the preference    *)
(* collection hold, empty collections included.                            *)
C4_NoPreferenceGivesEmptyResult ==
    \A r \in reqs :
        (Loaded(r) /\ StoredPrefsOf(r) = <<>>) =>
            /\ response[r].status = 200
            /\ response[r].preferences = <<>>
            /\ response[r].recommendations = <<>>

\* rank of catalog item i among the matches of request r
RankOf(r, i) ==
    Cardinality({j \in 1..i : LabelOf(snapCourses[r][j].typeRessource) \in WantedLabels(r)})

(* C9. A catalog item with no resource type counts as "other": it is       *)
(* recommended exactly when a preference of the user normalises to "other" *)
(* (and top_n has room for it), and its lack of a resource type never      *)
(* makes the request fail.                                                 *)
C9_NoResourceTypeIsOther ==
    \A r \in reqs :
        (Loaded(r) /\ snapPrefs[r] # <<>>) =>
            \A i \in 1..Len(snapCourses[r]) :
                snapCourses[r][i].typeRessource \in {Missing, None} =>
                    /\ response[r].status = 200
                    /\ PyStr(snapCourses[r][i]._id) \in RecIds(r)
                           <=> (Other \in WantedLabels(r) /\ RankOf(r, i) <= top_n[r])

(* C6. Normalising a resource-type label (as the load does for the        *)
(* preference and for the catalog column) never fails and is idempotent:   *)
(* normalising a normalised label gives the same label.                    *)
C6_NormalizeIdempotent ==
    /\ norm.step >= 1 => ~Absent(norm.once)
    /\ norm.step = 2 => norm.twice = norm.once

\* a label that lost at least two characters of whitespace, normalised twice
C6_Witness ==
    /\ norm.step = 2
    /\ Len(norm.raw) >= Len(norm.once) + 2
    /\ norm.once # <<>>

\* the steps of one request leave the store and every other request alone
RequestStepsAreLocal ==
    \A r \in reqs :
        pc'[r] # pc[r] =>
            /\ UNCHANGED storeVars
            /\ \A q \in reqs \ {r} :
                   /\ pc'[q] = pc[q]
                   /\ user_id'[q] = user_id[q]
                   /\ top_n'[q] = top_n[q]
                   /\ prefs_df'[q] = prefs_df[q]
                   /\ response'[q] = response[q]
                   /\ finds'[q] = finds[q]
                   /\ failedAt'[q] = failedAt[q]
                   /\ snapPrefs'[q] = snapPrefs[q]
                   /\ snapCourses'[q] = snapCourses[q]

\* what a finished request answered is what the same request, served alone,
\* answers from the documents it read
LoneOutcome ==
    \A r \in reqs :
        Done(r) =>
            response[r] = get_recommendations(user_id[r], top_n[r], snapPrefs[r],
                                              snapCourses[r], failedAt[r])

(* C10. Requests served at once are independent under every interleaving:  *)
(* no step of a request writes the store or anything another request       *)
(* holds, and every request answers what a lone request with the same user *)
(* id and top_n answers from the preferences and catalog it loaded itself. *)
C10_RequestsIndependent == []LoneOutcome /\ [][RequestStepsAreLocal]_vars

\* two requests in flight at once hold different preference snapshots
C10_Witness ==
    /\ pc["r1"] = "find_courses"
    /\ pc["r2"] = "find_courses"
    /\ snapPrefs["r1"] # snapPrefs["r2"]

====
